---- MODULE Spec2Model ----
(***************************************************************************)
(* Android Action Kernel: the perceive -> decide -> act run loop           *)
(* (kernel.py), the configuration check that guards it (config.py), the    *)
(* action dispatcher (actions.py), the decision parsing of the LLM         *)
(* providers (llm_providers.py) and the UI element extractor               *)
(* (sanitizer.py).                                                         *)
(*                                                                         *)
(* Strings the code computes on (typed text, bounds rectangles, goals) are *)
(* sequences of one-character strings.  A model response is a sequence of  *)
(* JSON lexemes.  A Python dict is a function from its keys to values.     *)
(***************************************************************************)
EXTENDS Integers, Sequences, FiniteSets, TLC

\* ------------------------------------------------------------------ bounds
MaxStepBound == 2   \* MAX_STEPS is drawn from 0..MaxStepBound
MaxLen == 4         \* longest response text, in lexemes, of SpecParse
MaxAround == 1      \* most nodes before, and after, the node under test of SpecExtract
MaxHist == 2        \* longest action history of SpecFormat
MaxText == 3        \* longest typed text, in characters, of SpecDispatch

\* --------------------------------------------------------------- constants
SCREEN_CENTER_X == 540
SCREEN_CENTER_Y == 1200
SWIPE_DURATION_MS == "300"
KEYCODE_ENTER == "66"
KEYCODE_HOME == "KEYCODE_HOME"
KEYCODE_BACK == "KEYCODE_BACK"
DEVICE_DUMP_PATH == "/sdcard/window_dump.xml"
LOCAL_DUMP_PATH == "window_dump.xml"
SUPPORTED_PROVIDERS == {"openai", "groq", "bedrock"}

SWIPE_COORDS ==
  [ up    |-> <<SCREEN_CENTER_X, 1500, SCREEN_CENTER_X, 500>>,
    down  |-> <<SCREEN_CENTER_X, 500, SCREEN_CENTER_X, 1500>>,
    left  |-> <<800, SCREEN_CENTER_Y, 200, SCREEN_CENTER_Y>>,
    right |-> <<200, SCREEN_CENTER_Y, 800, SCREEN_CENTER_Y>> ]

\* ----------------------------------------------------------- Python dicts
EmptyDict == [k \in {} |-> "x"]

\* dict.get(key, default)
Get(d, key, default) == IF key \in DOMAIN d THEN d[key] ELSE default

\* d[key] = value (a later duplicate key of a JSON object replaces the earlier)
Put(d, key, value) ==
  [k \in DOMAIN d \cup {key} |-> IF k = key THEN value ELSE d[k]]

\* every sequence over S of length at most n
RECURSIVE SeqsUpTo(_, _)
SeqsUpTo(S, n) ==
  IF n = 0 THEN {<<>>}
  ELSE LET shorter == SeqsUpTo(S, n - 1)
       IN  shorter \cup {Append(t, x) : t \in {u \in shorter : Len(u) = n - 1}, x \in S}

\* the value of action.get("action") when the key is absent
NoneVal == "None"

\* ------------------------------------------------------------ JSON lexemes
LB == "{"
RB == "}"
COMMA == ","
JUNK == "junk"           \* a word of prose: no JSON token, no brace
NUM == "7"               \* a JSON number: a value that is not an object
KEY == "\"meta\":"       \* a member key and its colon; a value must follow

A_TAP == "\"action\":\"tap\""
A_TYPE == "\"action\":\"type\""
A_ENTER == "\"action\":\"enter\""
A_SWIPE == "\"action\":\"swipe\""
A_HOME == "\"action\":\"home\""
A_BACK == "\"action\":\"back\""
A_WAIT == "\"action\":\"wait\""
A_DONE == "\"action\":\"done\""
A_FLY == "\"action\":\"fly\""
C_OK == "\"coordinates\":[200,300]"
C_ONE == "\"coordinates\":[200]"
T_AB == "\"text\":\"a b\""
D_LEFT == "\"direction\":\"left\""
D_BOGUS == "\"direction\":\"bogus\""
R_WHY == "\"reason\":\"why\""

\* a complete member of an object: its key and its decoded value
MemberKey(lex) ==
  CASE lex \in {A_TAP, A_TYPE, A_ENTER, A_SWIPE, A_HOME, A_BACK, A_WAIT,
                A_DONE, A_FLY} -> "action"
    [] lex \in {C_OK, C_ONE} -> "coordinates"
    [] lex = T_AB -> "text"
    [] lex \in {D_LEFT, D_BOGUS} -> "direction"
    [] lex = R_WHY -> "reason"

MemberVal(lex) ==
  CASE lex = A_TAP -> "tap"
    [] lex = A_TYPE -> "type"
    [] lex = A_ENTER -> "enter"
    [] lex = A_SWIPE -> "swipe"
    [] lex = A_HOME -> "home"
    [] lex = A_BACK -> "back"
    [] lex = A_WAIT -> "wait"
    [] lex = A_DONE -> "done"
    [] lex = A_FLY -> "fly"
    [] lex = C_OK -> <<200, 300>>
    [] lex = C_ONE -> <<200>>
    [] lex = T_AB -> <<"a", " ", "b">>
    [] lex = D_LEFT -> "left"
    [] lex = D_BOGUS -> "bogus"
    [] lex = R_WHY -> "why"

MemberLexemes ==
  {A_TAP, A_TYPE, A_ENTER, A_SWIPE, A_HOME, A_BACK, A_WAIT, A_DONE, A_FLY,
   C_OK, C_ONE, T_AB, D_LEFT, D_BOGUS, R_WHY}

\* ------------------------------------------------------------- json.loads
\* A scan result: ok, the position after the value, and the value read.
\* A value is tagged "dict" (val is the dict) or "scalar" (not an object).
ScanFail == [ok |-> FALSE, next |-> 0, tag |-> "none", val |-> EmptyDict]

RECURSIVE ScanValue(_, _)
RECURSIVE ScanObject(_, _, _, _)

\* the members of an object from position i; st is what may come next:
\* "start" (a member or the closing brace), "member" (a member, after a
\* comma), "sep" (a comma or the closing brace, after a member)
ScanObject(s, i, d, st) ==
  IF i > Len(s) THEN ScanFail
  ELSE IF s[i] = RB /\ st \in {"start", "sep"}
    THEN [ok |-> TRUE, next |-> i + 1, tag |-> "dict", val |-> d]
  ELSE IF s[i] = COMMA /\ st = "sep" THEN ScanObject(s, i + 1, d, "member")
  ELSE IF s[i] \in MemberLexemes /\ st \in {"start", "member"}
    THEN ScanObject(s, i + 1, Put(d, MemberKey(s[i]), MemberVal(s[i])), "sep")
  ELSE IF s[i] = KEY /\ st \in {"start", "member"}
    THEN LET v == ScanValue(s, i + 1)
         IN  IF v.ok THEN ScanObject(s, v.next, Put(d, "meta", v.tag), "sep")
             ELSE ScanFail
  ELSE ScanFail

ScanValue(s, i) ==
  IF i > Len(s) THEN ScanFail
  ELSE IF s[i] = NUM
    THEN [ok |-> TRUE, next |-> i + 1, tag |-> "scalar", val |-> EmptyDict]
  ELSE IF s[i] = LB THEN ScanObject(s, i + 1, EmptyDict, "start")
  ELSE ScanFail

\* json.loads(text): the value when the whole text is one JSON value,
\* JSONDecodeError (ok = FALSE) otherwise
JsonLoads(text) ==
  LET v == ScanValue(text, 1)
  IN  IF v.ok /\ v.next = Len(text) + 1 THEN v ELSE ScanFail

\* re.search(r'\{[^{}]*\}', text): the leftmost "{" whose next brace is a
\* "}", with everything between them; <<>> when there is no match
RegexSearch(text) ==
  LET IsMatch(i, j) ==
        /\ text[i] = LB
        /\ text[j] = RB
        /\ \A k \in (i + 1)..(j - 1) : text[k] \notin {LB, RB}
      Starts == {i \in 1..Len(text) : \E j \in (i + 1)..Len(text) : IsMatch(i, j)}
  IN  IF Starts = {} THEN <<>>
      ELSE LET i == CHOOSE a \in Starts : \A b \in Starts : a <= b
               j == CHOOSE b \in (i + 1)..Len(text) : IsMatch(i, b)
           IN  SubSeq(text, i, j)

\* what a call returns: a value ("dict" or "scalar") or an exception
Returned(v) == [raised |-> FALSE, tag |-> v.tag, val |-> v.val]
Raised == [raised |-> TRUE, tag |-> "none", val |-> EmptyDict]

DefaultAction ==
  [action |-> "wait", reason |-> "Failed to parse response, waiting"]

\* BedrockProvider._parse_json_response
ParseJsonResponse(text) ==
  LET direct == JsonLoads(text)
  IN  IF direct.ok THEN Returned(direct)
      ELSE LET json_match == RegexSearch(text)
           IN  IF json_match # <<>>
                 THEN LET inner == JsonLoads(json_match)
                      IN  IF inner.ok THEN Returned(inner) ELSE Raised
                 ELSE [raised |-> FALSE, tag |-> "dict", val |-> DefaultAction]

\* OpenAIProvider.get_decision: json.loads of the message content
OpenAIParse(text) ==
  LET direct == JsonLoads(text)
  IN  IF direct.ok THEN Returned(direct) ELSE Raised

\* get_llm_provider() and the provider's get_decision, on the response text
GetDecision(provider, text) ==
  IF provider = "bedrock" THEN ParseJsonResponse(text) ELSE OpenAIParse(text)

\* ------------------------------------------------------------------ config
\* Config._provider_has_credentials
ProviderHasCredentials(c, provider) ==
  CASE provider = "groq" -> c.GROQ_API_KEY
    [] provider = "openai" -> c.OPENAI_API_KEY
    [] provider = "bedrock" -> TRUE
    [] OTHER -> FALSE

\* Config.resolve_provider: the provider, or ValueError (raised = TRUE)
ResolveProvider(c, require_credentials) ==
  LET providers == IF c.LLM_PROVIDERS # <<>> THEN c.LLM_PROVIDERS ELSE <<"openai">>
      supported == SelectSeq(providers, LAMBDA p : p \in SUPPORTED_PROVIDERS)
      withCreds == {i \in 1..Len(supported) : ProviderHasCredentials(c, supported[i])}
  IN  IF supported = <<>> THEN [raised |-> TRUE, provider |-> "none"]
      ELSE IF withCreds # {}
        THEN [raised |-> FALSE,
              provider |-> supported[CHOOSE i \in withCreds : \A j \in withCreds : i <= j]]
      ELSE IF require_credentials THEN [raised |-> TRUE, provider |-> "none"]
      ELSE [raised |-> FALSE, provider |-> supported[1]]

\* Config.validate without require_credentials=True
ValidateWithoutCredentials(c) == ~ResolveProvider(c, FALSE).raised

\* Config.validate: TRUE when it returns, FALSE when it raises ValueError
Validate(c) ==
  LET r == ResolveProvider(c, TRUE)
  IN  IF r.raised THEN FALSE
      ELSE IF r.provider = "groq" /\ ~c.GROQ_API_KEY THEN FALSE
      ELSE IF r.provider = "openai" /\ ~c.OPENAI_API_KEY THEN FALSE
      ELSE TRUE

\* Config.LLM_PROVIDER
LLM_PROVIDER(c) == ResolveProvider(c, FALSE).provider

\* -------------------------------------------------------------- dispatcher
\* A device command: the argument list handed to run_adb_command.  The one
\* argument the code computes character by character (the typed text) is
\* kept apart as a sequence of characters.
Cmd(argv) == [argv |-> argv, text |-> <<>>]

\* str.replace(" ", "%s", 1): the first space only
ReplaceFirstSpace(text) ==
  LET spaces == {i \in 1..Len(text) : text[i] = " "}
  IN  IF spaces = {} THEN text
      ELSE LET i == CHOOSE a \in spaces : \A b \in spaces : a <= b
           IN  SubSeq(text, 1, i - 1) \o <<"%", "s">> \o SubSeq(text, i + 1, Len(text))

\* str.replace(" ", "%s")
RECURSIVE ReplaceSpaces(_)
ReplaceSpaces(text) ==
  IF text = <<>> THEN <<>>
  ELSE (IF Head(text) = " " THEN <<"%", "s">> ELSE <<Head(text)>>)
       \o ReplaceSpaces(Tail(text))

Done(cmds) == [outcome |-> "ok", cmds |-> cmds]

_execute_tap(action) ==
  LET coordinates == Get(action, "coordinates", <<0, 0>>)
  IN  IF Len(coordinates) # 2 THEN [outcome |-> "raise", cmds |-> <<>>]
      ELSE Done(<<Cmd(<<"shell", "input", "tap",
                        ToString(coordinates[1]), ToString(coordinates[2])>>)>>)

_execute_type(action) ==
  LET text == Get(action, "text", <<>>)
      escaped_text == ReplaceSpaces(text)
  IN  Done(<<[argv |-> <<"shell", "input", "text">>, text |-> escaped_text]>>)

_execute_enter == Done(<<Cmd(<<"shell", "input", "keyevent", KEYCODE_ENTER>>)>>)

_execute_swipe(action) ==
  LET direction == Get(action, "direction", "up")
      coords == IF direction \in DOMAIN SWIPE_COORDS THEN SWIPE_COORDS[direction]
                ELSE SWIPE_COORDS["up"]
  IN  Done(<<Cmd(<<"shell", "input", "swipe",
                   ToString(coords[1]), ToString(coords[2]),
                   ToString(coords[3]), ToString(coords[4]),
                   SWIPE_DURATION_MS>>)>>)

_execute_home == Done(<<Cmd(<<"shell", "input", "keyevent", KEYCODE_HOME>>)>>)

_execute_back == Done(<<Cmd(<<"shell", "input", "keyevent", KEYCODE_BACK>>)>>)

\* time.sleep(2): no device command
_execute_wait == Done(<<>>)

\* exit(0): SystemExit leaves run_agent and main
_execute_done == [outcome |-> "exit", cmds |-> <<>>]

\* the else branch raising instead of printing
UnknownActionRaises == [outcome |-> "raise", cmds |-> <<>>]

\* the else branch: a warning is printed
UnknownAction == Done(<<>>)

\* execute_action: how the call ends ("ok", "exit", "raise") and the device
\* commands it issued
ExecuteAction(action) ==
  LET act_type == Get(action, "action", NoneVal)
  IN  CASE act_type = "tap" -> _execute_tap(action)
        [] act_type = "type" -> _execute_type(action)
        [] act_type = "enter" -> _execute_enter
        [] act_type = "swipe" -> _execute_swipe(action)
        [] act_type = "home" -> _execute_home
        [] act_type = "back" -> _execute_back
        [] act_type = "wait" -> _execute_wait
        [] act_type = "done" -> _execute_done
        [] OTHER -> UnknownAction

\* ---------------------------------------------------------------- run loop
VARIABLES
  config,          \* Config: LLM_PROVIDERS, OPENAI_API_KEY, GROQ_API_KEY, MAX_STEPS
  pc,              \* where main / run_agent stands
  goal,            \* the goal read by input()
  goal_asked,      \* whether input("Enter your goal: ") was called
  step,            \* run_agent's loop variable: steps completed so far
  decision,        \* the decision of the current step
  action_history,  \* run_agent's action_history
  commands,        \* every device command issued through run_adb_command
  requests         \* the number of get_decision calls made

loopVars == <<config, pc, goal, goal_asked, step, decision, action_history,
              commands, requests>>

\* Config.LLM_PROVIDERS after Settings.parse_llm_providers: never empty,
\* names stripped and lower-cased
ProviderLists ==
  { <<"openai">>, <<"groq">>, <<"bedrock">>, <<"azure">>,
    <<"azure", "groq">>, <<"groq", "openai">>, <<"openai", "bedrock">>,
    <<"azure", "bedrock">>, <<"azure", "ollama">> }

Configs ==
  [ LLM_PROVIDERS : ProviderLists, OPENAI_API_KEY : BOOLEAN,
    GROQ_API_KEY : BOOLEAN, MAX_STEPS : 0..MaxStepBound ]

\* what the user types at the prompt
Goals == { <<>>, <<" ">>, <<"g", "o">> }

\* str.strip() on a goal: leading and trailing spaces removed
RECURSIVE LStrip(_)
LStrip(t) == IF t # <<>> /\ Head(t) = " " THEN LStrip(Tail(t)) ELSE t

RECURSIVE RStrip(_)
RStrip(t) ==
  IF t # <<>> /\ t[Len(t)] = " " THEN RStrip(SubSeq(t, 1, Len(t) - 1)) ELSE t

Strip(t) == RStrip(LStrip(t))

\* the response texts the decision backend may send back in a run
Responses ==
  { <<LB, A_TAP, COMMA, C_OK, RB>>,            \* a tap
    <<LB, A_TAP, COMMA, C_ONE, RB>>,           \* a tap with one coordinate
    <<LB, A_TYPE, COMMA, T_AB, RB>>,           \* typing "a b"
    <<LB, A_ENTER, RB>>,
    <<LB, A_SWIPE, COMMA, D_BOGUS, RB>>,
    <<LB, A_HOME, RB>>,
    <<LB, A_BACK, RB>>,
    <<LB, A_WAIT, RB>>,
    <<LB, A_DONE, RB>>,
    <<LB, A_FLY, RB>>,                         \* a kind outside the vocabulary
    <<LB, R_WHY, RB>>,                         \* no action field
    <<NUM>>,                                   \* valid JSON, not an object
    <<JUNK, LB, A_DONE, RB>>,                  \* an object inside prose
    <<JUNK, LB, JUNK, RB>>,                    \* braces around prose
    <<JUNK>> }                                 \* prose only

NoDecision == EmptyDict

\* for step in range(max_steps): the loop head
LoopHead(n) == IF n < config.MAX_STEPS THEN "perceive" ELSE "max_steps_reached"

LoopInit ==
  /\ config \in Configs
  /\ pc = "main"
  /\ goal = <<>>
  /\ goal_asked = FALSE
  /\ step = 0
  /\ decision = NoDecision
  /\ action_history = <<>>
  /\ commands = <<>>
  /\ requests = 0

\* main: Config.validate() in the try block
MainValidate ==
  /\ pc = "main"
  /\ pc' = IF Validate(config) THEN "input" ELSE "config_error"
  /\ UNCHANGED <<config, goal, goal_asked, step, decision, action_history,
                 commands, requests>>

\* main: goal = input(...); return on a blank goal, run_agent(goal) otherwise,
\* up to the head of its loop
MainInput ==
  /\ pc = "input"
  /\ \E g \in Goals :
       /\ goal' = g
       /\ goal_asked' = TRUE
       /\ IF Strip(g) = <<>> THEN pc' = "no_goal" ELSE pc' = LoopHead(0)
  /\ step' = 0
  /\ action_history' = <<>>
  /\ UNCHANGED <<config, decision, commands, requests>>

\* get_screen_state: dump on the device, pull to the local machine
GetScreenState ==
  /\ pc = "perceive"
  /\ commands' = commands
        \o << Cmd(<<"shell", "uiautomator", "dump", DEVICE_DUMP_PATH>>),
              Cmd(<<"pull", DEVICE_DUMP_PATH, LOCAL_DUMP_PATH>>) >>
  /\ pc' = "decide"
  /\ UNCHANGED <<config, goal, goal_asked, step, decision, action_history, requests>>

\* decision = llm.get_decision(...), then decision.get('reason', ...) for
\* the log line; an exception of either leaves run_agent and main
Decide ==
  /\ pc = "decide"
  /\ requests' = requests + 1
  /\ \E text \in Responses :
       LET r == GetDecision(LLM_PROVIDER(config), text)
       IN  IF r.raised \/ r.tag # "dict"
             THEN pc' = "crashed" /\ decision' = NoDecision
             ELSE pc' = "act" /\ decision' = r.val
  /\ UNCHANGED <<config, goal, goal_asked, step, action_history, commands>>

\* execute_action(decision)
Act ==
  /\ pc = "act"
  /\ LET r == ExecuteAction(decision)
     IN  /\ commands' = commands \o r.cmds
         /\ pc' = CASE r.outcome = "ok" -> "append"
                    [] r.outcome = "exit" -> "exited"
                    [] r.outcome = "raise" -> "crashed"
  /\ UNCHANGED <<config, goal, goal_asked, step, decision, action_history, requests>>

\* action_history.insert(0, decision) in place of the append
AppendHistoryInFront ==
  /\ pc = "append"
  /\ action_history' = <<decision>> \o action_history
  /\ step' = step + 1
  /\ pc' = LoopHead(step + 1)
  /\ UNCHANGED <<config, goal, goal_asked, decision, commands, requests>>

\* action_history.append(decision); time.sleep(STEP_DELAY); next iteration
AppendHistory ==
  /\ pc = "append"
  /\ action_history' = Append(action_history, decision)
  /\ step' = step + 1
  /\ pc' = LoopHead(step + 1)
  /\ UNCHANGED <<config, goal, goal_asked, decision, commands, requests>>

\* -------------------------------------------------------- element extractor
Digits == {"0", "1", "2", "3", "4", "5", "6", "7", "8", "9"}

DigitVal(c) == CHOOSE d \in 0..9 : ToString(d) = c

\* str.replace("][", ","), left to right
RECURSIVE ReplaceBracketPairs(_)
ReplaceBracketPairs(t) ==
  IF t = <<>> THEN <<>>
  ELSE IF Len(t) >= 2 /\ t[1] = "]" /\ t[2] = "["
    THEN <<",">> \o ReplaceBracketPairs(SubSeq(t, 3, Len(t)))
  ELSE <<Head(t)>> \o ReplaceBracketPairs(Tail(t))

\* str.replace(c, "")
Remove(t, c) == SelectSeq(t, LAMBDA x : x # c)

\* str.split(","): the pieces between the commas, empty pieces included
RECURSIVE SplitFrom(_, _, _)
SplitFrom(t, i, piece) ==
  IF i > Len(t) THEN <<piece>>
  ELSE IF t[i] = "," THEN <<piece>> \o SplitFrom(t, i + 1, <<>>)
  ELSE SplitFrom(t, i + 1, Append(piece, t[i]))

Split(t) == SplitFrom(t, 1, <<>>)

RECURSIVE DigitsValue(_, _)
DigitsValue(t, acc) ==
  IF t = <<>> THEN acc ELSE DigitsValue(Tail(t), 10 * acc + DigitVal(Head(t)))

\* int(token): surrounding blanks stripped, an optional sign, then decimal
\* digits; ValueError (ok = FALSE) otherwise
PyInt(token) ==
  LET t == Strip(token)
      signed == t # <<>> /\ Head(t) \in {"-", "+"}
      digits == IF signed THEN Tail(t) ELSE t
  IN  IF digits = <<>> \/ \E i \in 1..Len(digits) : digits[i] \notin Digits
        THEN [ok |-> FALSE, value |-> 0]
        ELSE [ok |-> TRUE,
              value |-> IF signed /\ Head(t) = "-" THEN 0 - DigitsValue(digits, 0)
                        ELSE DigitsValue(digits, 0)]

\* coords = bounds.replace("][", ",").replace("[", "").replace("]", "").split(",")
\* x1, y1, x2, y2 = map(int, coords): the four integers, or an exception
ParseBounds(bounds) ==
  LET coords == Split(Remove(Remove(ReplaceBracketPairs(bounds), "["), "]"))
  IN  IF Len(coords) # 4 \/ \E i \in 1..Len(coords) : ~PyInt(coords[i]).ok
        THEN [ok |-> FALSE, xy |-> <<>>]
        ELSE [ok |-> TRUE, xy |-> [i \in 1..4 |-> PyInt(coords[i]).value]]

\* the center with the division rounding toward zero
TruncatedCenter(x1, y1, x2, y2) ==
  LET Trunc(n) == IF n >= 0 THEN n \div 2 ELSE 0 - ((0 - n) \div 2)
  IN  <<Trunc(x1 + x2), Trunc(y1 + y2)>>

\* center_x = (x1 + x2) // 2, center_y = (y1 + y2) // 2
Center(x1, y1, x2, y2) == <<(x1 + x2) \div 2, (y1 + y2) \div 2>>

\* a class name is the sequence of its name pieces and dots;
\* needle in element_class
Contains(element_class, needle) ==
  \E i \in 1..Len(element_class) : element_class[i] = needle

\* element_class.split(".")[-1]
RECURSIVE LastSegment(_)
LastSegment(element_class) ==
  IF \E i \in 1..Len(element_class) : element_class[i] = "."
    THEN LastSegment(Tail(element_class))
    ELSE element_class

IsClickable(node) == Get(node, "clickable", NoneVal) = "true"

IsEditable(node) ==
  LET element_class == Get(node, "class", <<>>)
  IN  \/ Contains(element_class, "EditText")
      \/ Contains(element_class, "AutoCompleteTextView")
      \/ Get(node, "editable", NoneVal) = "true"

\* the filter that keeps every node
KeepsEveryNode(node) == FALSE

\* if not is_clickable and not is_editable and not text and not desc: continue
IsSkipped(node) ==
  /\ ~IsClickable(node)
  /\ ~IsEditable(node)
  /\ Get(node, "text", "") = ""
  /\ Get(node, "content-desc", "") = ""

\* the suggested action with clickable taking priority
ClickableFirst(is_editable, is_clickable) ==
  IF is_clickable THEN "tap" ELSE IF is_editable THEN "type" ELSE "read"

SuggestedAction(is_editable, is_clickable) ==
  IF is_editable THEN "type" ELSE IF is_clickable THEN "tap" ELSE "read"

\* `except Exception:` passing the exception on instead of `continue`
HandlerPropagates == "raise"

\* except Exception: continue
BoundsHandler == "continue"

\* the body of the loop for one node: the elements it appends (none or
\* one) and whether an exception left the try block
VisitNode(node) ==
  LET text == Get(node, "text", "")
      desc == Get(node, "content-desc", "")
      bounds == Get(node, "bounds", <<>>)
      parsed_bounds == ParseBounds(bounds)
      xy == parsed_bounds.xy
  IN  IF IsSkipped(node) \/ bounds = <<>>
        THEN [elements |-> <<>>, raised |-> FALSE]
      ELSE IF ~parsed_bounds.ok THEN [elements |-> <<>>, raised |-> TRUE]
      ELSE [raised |-> FALSE,
            elements |->
              << [ id |-> Get(node, "resource-id", ""),
                   text |-> IF text # "" THEN text ELSE desc,
                   type |-> LastSegment(Get(node, "class", <<>>)),
                   bounds |-> bounds,
                   center |-> Center(xy[1], xy[2], xy[3], xy[4]),
                   clickable |-> IsClickable(node),
                   editable |-> IsEditable(node),
                   action |-> SuggestedAction(IsEditable(node), IsClickable(node)) ] >>]

\* ---- UI-hierarchy documents
\* the decimal rendering of an integer, as uiautomator writes it
RECURSIVE DecNat(_)
DecNat(n) == IF n < 10 THEN <<ToString(n)>> ELSE DecNat(n \div 10) \o <<ToString(n % 10)>>

Dec(n) == IF n < 0 THEN <<"-">> \o DecNat(0 - n) ELSE DecNat(n)

\* the bounds attribute "[x1,y1][x2,y2]"
Rect(x1, y1, x2, y2) ==
  <<"[">> \o Dec(x1) \o <<",">> \o Dec(y1) \o <<"]">> \o
  <<"[">> \o Dec(x2) \o <<",">> \o Dec(y2) \o <<"]">>

BaseRect == Rect(5, 0, 2, 10)

\* rectangles with negative coordinates, x1 > x2 and odd sums
GoodBounds ==
  {Rect(x1, 0, x2, y2) : x1 \in {-3, 5}, x2 \in {-4, 2}, y2 \in {-7, 10}}

\* BaseRect with one character lost, or one character replaced by "x",
\* or one more coordinate pair
DamagedBounds ==
  {SubSeq(BaseRect, 1, i - 1) \o SubSeq(BaseRect, i + 1, Len(BaseRect)) :
     i \in 1..Len(BaseRect)}
  \cup {[BaseRect EXCEPT ![i] = "x"] : i \in 1..Len(BaseRect)}
  \cup {BaseRect \o <<"[", "1", ",", "1", "]">>, <<>>}

CLS_VIEW == <<"android", ".", "view", ".", "View">>
CLS_EDIT == <<"android", ".", "widget", ".", "EditText">>
CLS_AUTO == <<"android", ".", "widget", ".", "AutoCompleteTextView">>
CLS_CUSTOM == <<"com", ".", "app", ".", "My", "EditText", "Box">>

\* attribute sets of nodes, without bounds
PlainLayout ==
  ("clickable" :> "false") @@ ("class" :> CLS_VIEW) @@ ("text" :> "")
  @@ ("content-desc" :> "") @@ ("resource-id" :> "id/frame")

Profiles ==
  { PlainLayout,
    EmptyDict,
    ("clickable" :> "true") @@ ("class" :> CLS_VIEW) @@ ("resource-id" :> "id/ok"),
    ("clickable" :> "false") @@ ("class" :> CLS_EDIT),
    ("clickable" :> "true") @@ ("class" :> CLS_AUTO) @@ ("text" :> "Hi"),
    ("clickable" :> "true") @@ ("editable" :> "true") @@ ("class" :> CLS_VIEW),
    ("class" :> CLS_CUSTOM),
    ("clickable" :> "false") @@ ("class" :> CLS_VIEW) @@ ("text" :> "Hi"),
    ("class" :> CLS_VIEW) @@ ("text" :> "") @@ ("content-desc" :> "Back") }

ClickableNode == ("clickable" :> "true") @@ ("class" :> CLS_VIEW)

\* the node under test: every attribute set with a well-formed rectangle,
\* a clickable node with every bounds string (and with none), a plain
\* layout with damaged bounds
NodePool ==
  {Put(a, "bounds", BaseRect) : a \in Profiles}
  \cup {Put(ClickableNode, "bounds", b) : b \in GoodBounds \cup DamagedBounds}
  \cup {ClickableNode, Put(PlainLayout, "bounds", <<"x">>)}

\* the nodes around it: one that is emitted, one with damaged bounds, one
\* that is filtered out
AroundPool ==
  { Put(ClickableNode, "bounds", Rect(-3, 0, 2, 10)),
    Put(ClickableNode, "bounds", <<"[", "5", ",", "x", "]">>),
    Put(PlainLayout, "bounds", BaseRect) }

\* a document: not well-formed XML, or its nodes in root.iter() order
\* (depth first, the root first)
Documents ==
  {[wellformed |-> FALSE, nodes |-> <<>>]}
  \cup {[wellformed |-> TRUE, nodes |-> before \o <<n>> \o after] :
          n \in NodePool,
          before \in SeqsUpTo(AroundPool, MaxAround),
          after \in SeqsUpTo(AroundPool, MaxAround)}

VARIABLES
  xml_content,   \* the document handed to get_interactive_elements
  xpc,           \* "call", "iter", then "returned" or "raised"
  idx,           \* the position of the node the loop visits next
  elements       \* the elements list

extractVars == <<xml_content, xpc, idx, elements>>

ExtractInit ==
  /\ xml_content \in Documents
  /\ xpc = "call"
  /\ idx = 0
  /\ elements = <<>>

\* root = ET.fromstring(xml_content); return [] on ParseError
ParseXml ==
  /\ xpc = "call"
  /\ xpc' = IF xml_content.wellformed THEN "iter" ELSE "returned"
  /\ idx' = IF xml_content.wellformed THEN 1 ELSE 0
  /\ elements' = <<>>
  /\ UNCHANGED xml_content

\* one iteration of `for node in root.iter()`, and `return elements` after
\* the last one
IterateNode ==
  /\ xpc = "iter"
  /\ LET r == VisitNode(xml_content.nodes[idx])
     IN  IF r.raised /\ BoundsHandler = "raise"
           THEN xpc' = "raised" /\ UNCHANGED <<idx, elements>>
           ELSE /\ elements' = elements \o r.elements
                /\ idx' = idx + 1
                /\ xpc' = IF idx = Len(xml_content.nodes) THEN "returned" ELSE "iter"
  /\ UNCHANGED xml_content

ExtractIdle ==
  /\ xml_content = [wellformed |-> FALSE, nodes |-> <<>>]
  /\ xpc = "idle"
  /\ idx = 0
  /\ elements = <<>>

\* -------------------------------------------------------- history formatter
\* The returned string is the sequence of its pieces: the literal parts of
\* the f-strings, the values put between them, and, for a typed text, its
\* characters.
NL == "\n"

\* how an f-string renders a list of integers: [200, 300]
RECURSIVE ReprItems(_)
ReprItems(xs) ==
  IF xs = <<>> THEN <<>>
  ELSE IF Len(xs) = 1 THEN <<ToString(xs[1])>>
  ELSE <<ToString(xs[1]), ", ">> \o ReprItems(Tail(xs))

ReprList(xs) == <<"[">> \o ReprItems(xs) \o <<"]">>

\* the line of one entry with '' as the default of every field
LineWithEmptyDefaults(n, action) ==
  LET action_type == Get(action, "action", "")
      reason == Get(action, "reason", "")
  IN  IF action_type = "type"
        THEN <<"Step ", ToString(n), ": typed \"">> \o Get(action, "text", <<>>)
             \o <<"\" - ", reason>>
      ELSE IF action_type = "tap"
        THEN <<"Step ", ToString(n), ": tapped ">>
             \o ReprList(Get(action, "coordinates", <<>>)) \o <<" - ", reason>>
      ELSE <<"Step ", ToString(n), ": ", action_type, " - ", reason>>

\* the line of one entry, numbered n
LineWithNumber(n, action) ==
  LET action_type == Get(action, "action", "unknown")
      reason == Get(action, "reason", "N/A")
  IN  IF action_type = "type"
        THEN <<"Step ", ToString(n), ": typed \"">> \o Get(action, "text", <<>>)
             \o <<"\" - ", reason>>
      ELSE IF action_type = "tap"
        THEN <<"Step ", ToString(n), ": tapped ">>
             \o ReprList(Get(action, "coordinates", <<>>)) \o <<" - ", reason>>
      ELSE <<"Step ", ToString(n), ": ", action_type, " - ", reason>>

\* the line numbered with the index of enumerate() itself
HistoryLineFromZero(i, action) == LineWithNumber(i, action)

\* the body of `for i, action in enumerate(action_history)`: Step {i+1}
HistoryLine(i, action) == LineWithNumber(i + 1, action)

\* "\n".join(history_lines)
RECURSIVE JoinLines(_)
JoinLines(lines) ==
  IF lines = <<>> THEN <<>>
  ELSE IF Len(lines) = 1 THEN lines[1]
  ELSE lines[1] \o <<NL>> \o JoinLines(Tail(lines))

\* format_action_history(action_history)
FormatActionHistory(history) ==
  IF history = <<>> THEN <<>>
  ELSE LET history_lines ==
             [k \in 1..Len(history) |-> HistoryLine(k - 1, history[k])]
       IN  <<NL, NL, "PREVIOUS_ACTIONS:", NL>> \o JoinLines(history_lines)

\* the actions a history is made of
HistoryActions ==
  { [action |-> "type", text |-> <<"h", "i">>, reason |-> "greet"],
    [action |-> "type", text |-> <<"a", NL, "b">>, reason |-> "two lines"],
    [action |-> "type"],
    [action |-> "tap", coordinates |-> <<200, 300>>, reason |-> "why"],
    [action |-> "tap"],
    [action |-> "swipe", direction |-> "up", reason |-> "scroll"],
    [reason |-> "why"],
    DefaultAction }

VARIABLES
  fhistory,    \* the action_history handed to format_action_history
  fpc,         \* "call", then "returned"
  formatted    \* the string it returned

formatVars == <<fhistory, fpc, formatted>>

FormatInit ==
  /\ fhistory \in SeqsUpTo(HistoryActions, MaxHist)
  /\ fpc = "call"
  /\ formatted = <<>>

FormatCall ==
  /\ fpc = "call"
  /\ formatted' = FormatActionHistory(fhistory)
  /\ fpc' = "returned"
  /\ UNCHANGED fhistory

FormatIdle ==
  /\ fhistory = <<>>
  /\ fpc = "idle"
  /\ formatted = <<>>

\* -------------------------------------------------- decision parsing alone
VARIABLES
  backend,     \* Config.LLM_PROVIDER of the provider asked
  response,    \* the text the model sent back
  ppc,         \* "asked", then "returned" or "raised"
  parsed       \* what get_decision returned

parseVars == <<backend, response, ppc, parsed>>

\* the lexemes of the response texts explored exhaustively
ParseAlphabet == {LB, RB, COMMA, JUNK, NUM, KEY, A_TAP, R_WHY}

Texts == SeqsUpTo(ParseAlphabet, MaxLen)

NoResult == [raised |-> FALSE, tag |-> "none", val |-> EmptyDict]

ParseInit ==
  /\ backend \in SUPPORTED_PROVIDERS
  /\ response \in Texts
  /\ ppc = "asked"
  /\ parsed = NoResult

\* get_decision, from the response text on
GetDecisionCall ==
  /\ ppc = "asked"
  /\ parsed' = GetDecision(backend, response)
  /\ ppc' = IF parsed'.raised THEN "raised" ELSE "returned"
  /\ UNCHANGED <<backend, response>>

ParseIdle ==
  /\ backend = "openai"
  /\ response = <<>>
  /\ ppc = "idle"
  /\ parsed = NoResult

LoopIdle ==
  /\ config = [LLM_PROVIDERS |-> <<"openai">>, OPENAI_API_KEY |-> FALSE,
               GROQ_API_KEY |-> FALSE, MAX_STEPS |-> 0]
  /\ pc = "idle"
  /\ goal = <<>>
  /\ goal_asked = FALSE
  /\ step = 0
  /\ decision = NoDecision
  /\ action_history = <<>>
  /\ commands = <<>>
  /\ requests = 0

\* --------------------------------------------------------- dispatcher alone
VARIABLES
  daction,     \* the action handed to execute_action
  dpc,         \* "call", then "returned", "exited" or "raised"
  issued       \* the device commands the call issued

dispatchVars == <<daction, dpc, issued>>

\* the characters of the typed texts: letters, the space, and the two
\* characters of the placeholder itself
TextAlphabet == {"a", "b", " ", "%", "s"}

TypedTexts == SeqsUpTo(TextAlphabet, MaxText)

\* the actions dispatched: a type action for every text, one without a
\* text, and actions of other kinds
DispatchedActions ==
  {[action |-> "type", text |-> t, reason |-> "why"] : t \in TypedTexts}
    \cup { [action |-> "type"],
           [action |-> "enter"],
           [action |-> "tap", coordinates |-> <<200, 300>>],
           [action |-> "done"],
           [text |-> <<"a", " ", "b">>] }

DispatchInit ==
  /\ daction \in DispatchedActions
  /\ dpc = "call"
  /\ issued = <<>>

\* execute_action(action)
ExecuteActionCall ==
  /\ dpc = "call"
  /\ LET r == ExecuteAction(daction)
     IN  /\ issued' = r.cmds
         /\ dpc' = CASE r.outcome = "ok" -> "returned"
                     [] r.outcome = "exit" -> "exited"
                     [] r.outcome = "raise" -> "raised"
  /\ UNCHANGED daction

DispatchIdle ==
  /\ daction = EmptyDict
  /\ dpc = "idle"
  /\ issued = <<>>

vars == <<loopVars, parseVars, extractVars, formatVars, dispatchVars>>

\* ---------------------------------------------------------- specifications
\* the program: main, then run_agent
Init == LoopInit /\ ParseIdle /\ ExtractIdle /\ FormatIdle /\ DispatchIdle

Next ==
  \/ MainValidate /\ UNCHANGED <<parseVars, extractVars, formatVars, dispatchVars>>
  \/ MainInput /\ UNCHANGED <<parseVars, extractVars, formatVars, dispatchVars>>
  \/ GetScreenState /\ UNCHANGED <<parseVars, extractVars, formatVars, dispatchVars>>
  \/ Decide /\ UNCHANGED <<parseVars, extractVars, formatVars, dispatchVars>>
  \/ Act /\ UNCHANGED <<parseVars, extractVars, formatVars, dispatchVars>>
  \/ AppendHistory /\ UNCHANGED <<parseVars, extractVars, formatVars, dispatchVars>>

Spec == Init /\ [][Next]_vars

\* get_decision on every response text, for every backend
InitParse == ParseInit /\ LoopIdle /\ ExtractIdle /\ FormatIdle /\ DispatchIdle

NextParse == GetDecisionCall /\ UNCHANGED <<loopVars, extractVars, formatVars, dispatchVars>>

SpecParse == InitParse /\ [][NextParse]_vars

\* get_interactive_elements on every document
InitExtract == ExtractInit /\ LoopIdle /\ ParseIdle /\ FormatIdle /\ DispatchIdle

NextExtract ==
  \/ ParseXml /\ UNCHANGED <<loopVars, parseVars, formatVars, dispatchVars>>
  \/ IterateNode /\ UNCHANGED <<loopVars, parseVars, formatVars, dispatchVars>>

SpecExtract == InitExtract /\ [][NextExtract]_vars

\* format_action_history on every history
InitFormat == FormatInit /\ LoopIdle /\ ParseIdle /\ ExtractIdle /\ DispatchIdle

NextFormat == FormatCall /\ UNCHANGED <<loopVars, parseVars, extractVars, dispatchVars>>

SpecFormat == InitFormat /\ [][NextFormat]_vars

\* execute_action on every dispatched action
InitDispatch ==
  DispatchInit /\ LoopIdle /\ ParseIdle /\ ExtractIdle /\ FormatIdle

NextDispatch ==
  ExecuteActionCall /\ UNCHANGED <<loopVars, parseVars, extractVars, formatVars>>

SpecDispatch == InitDispatch /\ [][NextDispatch]_vars

\* ------------------------------------------------------------------ claims
ActionKinds == {"tap", "type", "enter", "swipe", "home", "back", "wait", "done"}

\* the run is over without a `done`: the loop ran out, or an exception
\* left run_agent
EndedWithoutDone == pc \in {"max_steps_reached", "crashed"}

\* C1: run_agent executes at most max_steps steps, stops at the first step
\* whose decision is `done` (nothing is appended after it), and when no
\* `done` is produced the loop ends after exactly max_steps steps.
C1_RunLength ==
  /\ step <= config.MAX_STEPS
  /\ requests <= config.MAX_STEPS
  /\ Len(action_history) = step
  /\ pc = "exited" =>
       /\ Get(decision, "action", NoneVal) = "done"
       /\ \A i \in 1..Len(action_history) :
            Get(action_history[i], "action", NoneVal) # "done"
  /\ EndedWithoutDone => step = config.MAX_STEPS

\* the parts of C1 that hold of the code: the step bound, and the stop at
\* the first `done`
C1_BoundAndStop ==
  /\ step <= config.MAX_STEPS
  /\ requests <= config.MAX_STEPS
  /\ Len(action_history) = step
  /\ pc = "exited" =>
       /\ Get(decision, "action", NoneVal) = "done"
       /\ \A i \in 1..Len(action_history) :
            Get(action_history[i], "action", NoneVal) # "done"
  /\ pc = "max_steps_reached" => step = config.MAX_STEPS

\* C2: get_decision, on any backend and any response text, returns an
\* Action record (a dict) and never raises.
C2_DecideTotal ==
  ppc \in {"returned", "raised"} => (ppc = "returned" /\ parsed.tag = "dict")

\* neither json.loads of the whole text nor json.loads of the first
\* brace-delimited substring succeeds
NeitherParseSucceeds(text) ==
  /\ ~JsonLoads(text).ok
  /\ RegexSearch(text) = <<>> \/ ~JsonLoads(RegexSearch(text)).ok

\* C3: on every response text on which neither the direct parse nor the
\* parse of the first brace-delimited substring succeeds, the Bedrock
\* response parsing returns exactly the default wait action.
C3_FallbackDefault ==
  (ppc \in {"returned", "raised"} /\ backend = "bedrock"
     /\ NeitherParseSucceeds(response))
  => (ppc = "returned" /\ parsed.tag = "dict" /\ parsed.val = DefaultAction)

\* the credentials a provider requires are present (Bedrock requires none)
RequiredCredentialsPresent(c, p) ==
  /\ p = "openai" => c.OPENAI_API_KEY
  /\ p = "groq" => c.GROQ_API_KEY

\* no supported provider is listed, or no listed supported provider has
\* its required credentials
ConfigInvalid(c) ==
  LET listed == {c.LLM_PROVIDERS[i] : i \in 1..Len(c.LLM_PROVIDERS)}
  IN  \A p \in listed \cap {"openai", "groq", "bedrock"} :
        ~RequiredCredentialsPresent(c, p)

\* C4: when configuration validation fails the run never begins: no goal
\* is requested, no step executes, no device command and no decision
\* request is issued.
C4_InvalidConfigNeverRuns ==
  ConfigInvalid(config) =>
    /\ pc \in {"main", "config_error"}
    /\ ~goal_asked
    /\ step = 0
    /\ action_history = <<>>
    /\ commands = <<>>
    /\ requests = 0

C4_Witness ==
  /\ pc = "config_error"
  /\ config.LLM_PROVIDERS = <<"groq", "openai">>
  /\ ~config.GROQ_API_KEY /\ ~config.OPENAI_API_KEY

\* the action field is missing or not one of the 8 kinds
UnknownKind(d) == "action" \notin DOMAIN d \/ d["action"] \notin ActionKinds

\* C5: dispatching an action whose kind is missing or unknown issues no
\* device command and does not fail, and the loop goes on to the next
\* step, or ends at the step bound.
C5_UnknownActionIsNoOp ==
  [][ /\ (pc = "act" /\ UnknownKind(decision)) =>
           (commands' = commands /\ pc' = "append")
      /\ (pc = "append" /\ UnknownKind(decision)) =>
           /\ step' = step + 1
           /\ pc' = IF step + 1 < config.MAX_STEPS THEN "perceive"
                    ELSE "max_steps_reached" ]_vars

C5_Witness ==
  /\ pc = "perceive"
  /\ step = 1
  /\ "action" \notin DOMAIN action_history[1]
  /\ Len(commands) = 2

\* clickable is true, or the node is editable, or it has text, or it has a
\* content description
Qualifies(node) ==
  \/ "clickable" \in DOMAIN node /\ node["clickable"] = "true"
  \/ "class" \in DOMAIN node /\ \E i \in 1..Len(node["class"]) :
        node["class"][i] \in {"EditText", "AutoCompleteTextView"}
  \/ "editable" \in DOMAIN node /\ node["editable"] = "true"
  \/ "text" \in DOMAIN node /\ node["text"] # ""
  \/ "content-desc" \in DOMAIN node /\ node["content-desc"] # ""

\* the step appended one element, produced from the node at idx
Emits == xpc = "iter" /\ Len(elements') = Len(elements) + 1
Emitted == elements'[Len(elements')]
Visited == xml_content.nodes[idx]

\* C6: every element of the output comes from a node that is clickable,
\* editable, or has text or a content description; a node with none of
\* these is never emitted, whatever its resource-id, class and bounds.
C6_OnlyQualifyingNodes ==
  [][ elements' # elements =>
        /\ Emits
        /\ SubSeq(elements', 1, Len(elements)) = elements
        /\ Qualifies(Visited)
        /\ Emitted.id = Get(Visited, "resource-id", "")
        /\ Emitted.bounds = Visited["bounds"] ]_vars

C6_Witness ==
  /\ xpc = "returned"
  /\ Len(xml_content.nodes) = 2
  /\ xml_content.nodes[1] = Put(PlainLayout, "bounds", BaseRect)
  /\ ~Qualifies(xml_content.nodes[1])
  /\ Len(elements) = 1
  /\ elements[1].bounds = xml_content.nodes[2]["bounds"]

\* an integer token: an optional minus sign, then decimal digits
IsIntToken(t) ==
  /\ t # <<>>
  /\ LET d == IF Head(t) = "-" THEN Tail(t) ELSE t
     IN  d # <<>> /\ \A i \in 1..Len(d) : d[i] \in Digits

\* where "[x1,y1][x2,y2]" has its first comma, its "][" and its second comma
RectCuts(b) ==
  {p \in (1..Len(b)) \X (1..Len(b)) \X (1..Len(b)) :
     /\ p[1] < p[2] /\ p[2] + 1 < p[3]
     /\ b[1] = "[" /\ b[Len(b)] = "]"
     /\ b[p[1]] = "," /\ b[p[2]] = "]" /\ b[p[2] + 1] = "[" /\ b[p[3]] = ","
     /\ IsIntToken(SubSeq(b, 2, p[1] - 1))
     /\ IsIntToken(SubSeq(b, p[1] + 1, p[2] - 1))
     /\ IsIntToken(SubSeq(b, p[2] + 2, p[3] - 1))
     /\ IsIntToken(SubSeq(b, p[3] + 1, Len(b) - 1))}

\* the string has the form "[x1,y1][x2,y2]" with four integer tokens
IsRect(b) == RectCuts(b) # {}

\* the string with every "][" read as a comma and every other bracket dropped
Skeleton(b) ==
  LET m == [i \in 1..Len(b) |->
              IF b[i] = "]" /\ i < Len(b) /\ b[i + 1] = "[" THEN "," ELSE b[i]]
  IN  SelectSeq(m, LAMBDA c : c \notin {"[", "]"})

\* brackets aside, the string is four integer tokens between three commas
FourIntTokens(b) ==
  LET k == Skeleton(b)
  IN  \E p1, p2, p3 \in 1..Len(k) :
        /\ p1 < p2 /\ p2 < p3
        /\ k[p1] = "," /\ k[p2] = "," /\ k[p3] = ","
        /\ IsIntToken(SubSeq(k, 1, p1 - 1))
        /\ IsIntToken(SubSeq(k, p1 + 1, p2 - 1))
        /\ IsIntToken(SubSeq(k, p2 + 1, p3 - 1))
        /\ IsIntToken(SubSeq(k, p3 + 1, Len(k)))

EmittedBounds == [k \in 1..Len(elements) |-> elements[k].bounds]

\* the bounds, in traversal order, of the qualifying nodes whose bounds
\* satisfy Accepts
BoundsOfNodes(nodes, Accepts(_)) ==
  LET kept == SelectSeq(nodes, LAMBDA n : Qualifies(n) /\ Accepts(Get(n, "bounds", <<>>)))
  IN  [k \in 1..Len(kept) |-> kept[k]["bounds"]]

\* C7 as claimed: a qualifying node whose bounds are not of the form
\* "[x1,y1][x2,y2]" with four integer tokens produces no element, the pass
\* is never aborted, and every other qualifying node with well-formed
\* bounds is emitted.
C7_MalformedBoundsSkipped ==
  /\ xpc # "raised"
  /\ (xpc = "returned" /\ xml_content.wellformed) =>
       EmittedBounds = BoundsOfNodes(xml_content.nodes, IsRect)

\* C7 as amended: the brackets are not checked.  A qualifying node whose
\* bounds are missing, empty, or, brackets aside, not four integer tokens
\* between commas produces no element; the pass is never aborted; every
\* other qualifying node is emitted, in traversal order.
C7_UnparsableBoundsSkipped ==
  /\ xpc # "raised"
  /\ (xpc = "returned" /\ xml_content.wellformed) =>
       EmittedBounds = BoundsOfNodes(xml_content.nodes, FourIntTokens)

C7_Witness ==
  /\ xpc = "returned"
  /\ Len(xml_content.nodes) = 3
  /\ \A i \in {1, 3} : Qualifies(xml_content.nodes[i])
                       /\ IsRect(xml_content.nodes[i]["bounds"])
  /\ Qualifies(xml_content.nodes[2])
  /\ "bounds" \in DOMAIN xml_content.nodes[2]
  /\ ~FourIntTokens(xml_content.nodes[2]["bounds"])
  /\ Len(elements) = 2

\* the integer a token denotes: the one whose decimal rendering it is
CoordRange == -20..20
TokenValue(t) == CHOOSE n \in CoordRange : Dec(n) = t

\* c is the floor of s / 2
IsFloorHalf(c, s) == 2 * c <= s /\ s <= 2 * c + 1

\* C8: for a qualifying node with well-formed bounds "[x1,y1][x2,y2]" the
\* emitted center is (floor((x1+x2)/2), floor((y1+y2)/2)), negative values
\* and x1 > x2 included, and the bounds field is the original string.
C8_CenterIsFloorMidpoint ==
  [][ Emits =>
        /\ Emitted.bounds = Visited["bounds"]
        /\ IsRect(Visited["bounds"]) =>
             LET b == Visited["bounds"]
                 p == CHOOSE q \in RectCuts(b) : TRUE
                 x1 == TokenValue(SubSeq(b, 2, p[1] - 1))
                 y1 == TokenValue(SubSeq(b, p[1] + 1, p[2] - 1))
                 x2 == TokenValue(SubSeq(b, p[2] + 2, p[3] - 1))
                 y2 == TokenValue(SubSeq(b, p[3] + 1, Len(b) - 1))
             IN  /\ IsFloorHalf(Emitted.center[1], x1 + x2)
                 /\ IsFloorHalf(Emitted.center[2], y1 + y2) ]_vars

C8_Witness ==
  /\ xpc = "returned"
  /\ \E k \in 1..Len(elements) :
       /\ elements[k].bounds = Rect(5, 0, -4, -7)
       /\ elements[k].center = <<0, -4>>

\* C9: the suggested action of an emitted element depends only on its
\* editable and clickable flags: editable gives "type" even when also
\* clickable, clickable alone gives "tap", neither gives "read".
C9_SuggestedActionPriority ==
  [][ Emits =>
        LET editable ==
              \/ "editable" \in DOMAIN Visited /\ Visited["editable"] = "true"
              \/ "class" \in DOMAIN Visited /\ \E i \in 1..Len(Visited["class"]) :
                    Visited["class"][i] \in {"EditText", "AutoCompleteTextView"}
            clickable == "clickable" \in DOMAIN Visited /\ Visited["clickable"] = "true"
        IN  /\ Emitted.editable = editable
            /\ Emitted.clickable = clickable
            /\ editable => Emitted.action = "type"
            /\ (clickable /\ ~editable) => Emitted.action = "tap"
            /\ (~clickable /\ ~editable) => Emitted.action = "read" ]_vars

C9_Witness ==
  /\ xpc = "returned"
  /\ \E k \in 1..Len(elements) :
       elements[k].editable /\ elements[k].clickable /\ elements[k].action = "type"
  /\ \E k \in 1..Len(elements) :
       ~elements[k].editable /\ elements[k].clickable /\ elements[k].action = "tap"

\* the lines of a string: its pieces between the line breaks
RECURSIVE LinesFrom(_, _, _)
LinesFrom(t, i, line) ==
  IF i > Len(t) THEN <<line>>
  ELSE IF t[i] = NL THEN <<line>> \o LinesFrom(t, i + 1, <<>>)
  ELSE LinesFrom(t, i + 1, Append(line, t[i]))

Header == <<NL, NL, "PREVIOUS_ACTIONS:", NL>>

HasHeader(t) == Len(t) >= Len(Header) /\ SubSeq(t, 1, Len(Header)) = Header

BodyLines(t) == LinesFrom(SubSeq(t, Len(Header) + 1, Len(t)), 1, <<>>)

\* u occurs in t as a run of consecutive pieces
Infix(u, t) ==
  \E k \in 0..(Len(t) - Len(u)) : SubSeq(t, k + 1, k + Len(u)) = u

\* the entry is labelled with step number n and renders the action: the
\* typed text verbatim for `type`, the coordinates for `tap`, the kind and
\* then the reason for any other kind
RendersEntry(entry, n, a) ==
  /\ Len(entry) >= 2 /\ entry[1] = "Step " /\ entry[2] = ToString(n)
  /\ IF "action" \in DOMAIN a /\ a["action"] = "type"
       THEN "text" \in DOMAIN a => Infix(a["text"], entry)
     ELSE IF "action" \in DOMAIN a /\ a["action"] = "tap"
       THEN "coordinates" \in DOMAIN a =>
              Infix(<<ToString(a["coordinates"][1]), ", ",
                      ToString(a["coordinates"][2])>>, entry)
     ELSE /\ "action" \in DOMAIN a => \E p \in 3..Len(entry) : entry[p] = a["action"]
          /\ "reason" \in DOMAIN a => entry[Len(entry)] = a["reason"]

\* the line breaks inside the fields an entry copies verbatim
BreaksIn(a) ==
  IF "action" \in DOMAIN a /\ a["action"] = "type" /\ "text" \in DOMAIN a
    THEN Cardinality({k \in 1..Len(a["text"]) : a["text"][k] = NL})
    ELSE 0

\* the line on which entry i starts
RECURSIVE FirstLine(_, _)
FirstLine(h, i) == IF i = 1 THEN 1 ELSE FirstLine(h, i - 1) + 1 + BreaksIn(h[i - 1])

\* C10 as claimed: the empty string exactly for the empty history; for n
\* actions one header followed by exactly n lines, line i labelled with
\* step number i and rendering the i-th action.
C10_HeaderAndOneLinePerAction ==
  fpc = "returned" =>
    /\ formatted = <<>> <=> fhistory = <<>>
    /\ fhistory # <<>> =>
         /\ HasHeader(formatted)
         /\ Len(BodyLines(formatted)) = Len(fhistory)
         /\ \A i \in 1..Len(fhistory) :
              RendersEntry(BodyLines(formatted)[i], i, fhistory[i])

\* C10 as amended: the empty string exactly for the empty history; for n
\* actions one header followed by exactly n entries, one per action and
\* oldest first, each starting on a new line, entry i labelled with step
\* number i and rendering the i-th action.  An entry is one line unless
\* its typed text has line breaks, which are copied verbatim: the lines
\* after the header number n plus the line breaks in the typed texts.
C10_HeaderAndOneEntryPerAction ==
  fpc = "returned" =>
    /\ formatted = <<>> <=> fhistory = <<>>
    /\ fhistory # <<>> =>
         LET lines == BodyLines(formatted)
             n == Len(fhistory)
         IN  /\ HasHeader(formatted)
             /\ Len(lines) = FirstLine(fhistory, n) + BreaksIn(fhistory[n])
             /\ \A i \in 1..n :
                  RendersEntry(
                    JoinLines(SubSeq(lines, FirstLine(fhistory, i),
                                     FirstLine(fhistory, i) + BreaksIn(fhistory[i]))),
                    i, fhistory[i])

C10_Witness ==
  /\ fpc = "returned"
  /\ Len(fhistory) = 2
  /\ fhistory[1] = [action |-> "type", text |-> <<"a", NL, "b">>, reason |-> "two lines"]
  /\ fhistory[2] = [action |-> "tap", coordinates |-> <<200, 300>>, reason |-> "why"]
  /\ Len(BodyLines(formatted)) = 3

\* the spaces of t before position i
SpacesBefore(t, i) == Cardinality({k \in 1..(i - 1) : t[k] = " "})

\* arg is t with every space replaced by "%s" and every other character
\* unchanged: each character of t sits in arg shifted right by one place
\* for every space before it, and each space is the two characters "%s"
IsEscapeOf(arg, t) ==
  /\ Len(arg) = Len(t) + SpacesBefore(t, Len(t) + 1)
  /\ \A i \in 1..Len(t) :
       LET p == i + SpacesBefore(t, i)
       IN  IF t[i] = " " THEN arg[p] = "%" /\ arg[p + 1] = "s"
           ELSE arg[p] = t[i]

\* C11: dispatching a `type` action with any text issues exactly one
\* text-input device command, whose argument is the text with every space
\* replaced by "%s" and every other character unchanged; the argument
\* contains no space.
C11_TypeEscapesEverySpace ==
  (dpc # "call" /\ Get(daction, "action", NoneVal) = "type") =>
    /\ dpc = "returned"
    /\ Len(issued) = 1
    /\ issued[1].argv = <<"shell", "input", "text">>
    /\ IsEscapeOf(issued[1].text, Get(daction, "text", <<>>))
    /\ \A k \in 1..Len(issued[1].text) : issued[1].text[k] # " "

C11_Witness ==
  /\ dpc = "returned"
  /\ Get(daction, "action", NoneVal) = "type"
  /\ Get(daction, "text", <<>>) = <<"a", " ", "b">>
  /\ Len(issued) = 1
  /\ issued[1].text = <<"a", "%", "s", "b">>

\* a field of a record, read from `missing` when the record lacks it
Field(a, key, missing) == IF key \in DOMAIN a THEN a[key] ELSE missing[key]

\* every field empty: the empty string, the empty text, the empty list
EmptyValues ==
  [action |-> "", reason |-> "", text |-> <<>>, coordinates |-> <<>>]

\* the kind `unknown`, the reason `N/A`, the empty text, the empty list
Placeholders ==
  [action |-> "unknown", reason |-> "N/A", text |-> <<>>, coordinates |-> <<>>]

\* the coordinates as a list in brackets, items separated by ", "
Bracketed(xs) ==
  <<"[">>
    \o [k \in 1..(2 * Len(xs) - 1) |->
          IF k % 2 = 1 THEN ToString(xs[(k + 1) \div 2]) ELSE ", "]
    \o <<"]">>

\* entry n of the output for record a, its missing fields read from
\* `missing`
ExpectedEntry(n, a, missing) ==
  LET kind == Field(a, "action", missing)
      tail == <<" - ", Field(a, "reason", missing)>>
      label == <<"Step ", ToString(n)>>
  IN  CASE kind = "type" ->
             label \o <<": typed \"">> \o Field(a, "text", missing) \o <<"\"">> \o tail
        [] kind = "tap" ->
             label \o <<": tapped ">> \o Bracketed(Field(a, "coordinates", missing)) \o tail
        [] OTHER -> label \o <<": ", kind>> \o tail

\* the output for history h: nothing for the empty history, the header
\* and the entries, each on a new line, otherwise
RECURSIVE ExpectedEntries(_, _, _)
ExpectedEntries(h, i, missing) ==
  IF i > Len(h) THEN <<>>
  ELSE (IF i = 1 THEN <<>> ELSE <<NL>>)
       \o ExpectedEntry(i, h[i], missing) \o ExpectedEntries(h, i + 1, missing)

ExpectedOutput(h, missing) ==
  IF h = <<>> THEN <<>> ELSE Header \o ExpectedEntries(h, 1, missing)

\* the pieces of a string run together, so that "\" - " followed by "why"
\* and "\"" followed by " - " and "why" are the same string
RECURSIVE Pieces(_)
Pieces(t) ==
  IF t = <<>> THEN <<>>
  ELSE IF Head(t) = "" THEN Pieces(Tail(t))
  ELSE IF Head(t) = "\" - " THEN <<"\"", " - ">> \o Pieces(Tail(t))
  ELSE <<Head(t)>> \o Pieces(Tail(t))

\* the record lacks a field its entry renders
LacksField(a) ==
  \/ "action" \notin DOMAIN a
  \/ "reason" \notin DOMAIN a
  \/ a["action"] = "type" /\ "text" \notin DOMAIN a
  \/ a["action"] = "tap" /\ "coordinates" \notin DOMAIN a

\* C12 as claimed: format_action_history returns on every history, and an
\* entry with a missing field (no action, no reason, no text for type, no
\* coordinates for tap) is rendered with the missing field as an empty
\* value.
C12_MissingFieldsRenderEmpty ==
  fpc # "call" =>
    /\ fpc = "returned"
    /\ Pieces(formatted) = Pieces(ExpectedOutput(fhistory, EmptyValues))

\* C12 as amended: format_action_history returns on every history, and an
\* entry with a missing field is still rendered, a missing action as the
\* kind `unknown`, a missing reason as `N/A`, a missing text as the empty
\* string and missing coordinates as the empty list `[]`.
C12_MissingFieldsRenderPlaceholders ==
  fpc # "call" =>
    /\ fpc = "returned"
    /\ Pieces(formatted) = Pieces(ExpectedOutput(fhistory, Placeholders))

C12_Witness ==
  /\ fpc = "returned"
  /\ Len(fhistory) = 2
  /\ fhistory[1] = [reason |-> "why"]
  /\ fhistory[2] = [action |-> "tap"]
  /\ LacksField(fhistory[1]) /\ LacksField(fhistory[2])
  /\ formatted = Header \o <<"Step ", "1", ": ", "unknown", " - ", "why", NL,
                             "Step ", "2", ": tapped ", "[", "]", " - ", "N/A">>

\* the kinds whose dispatch issues a device command
CommandKinds == {"tap", "type", "enter", "swipe", "home", "back"}

\* the run has not reached run_agent's loop
BeforeRun == pc \in {"main", "input", "config_error", "no_goal"}

\* the history holds one entry per completed step, and nothing before the
\* run starts; inside step k = step + 1 one decision was requested per
\* step begun
HistoryMatchesSteps ==
  /\ BeforeRun => action_history = <<>>
  /\ Len(action_history) = step
  /\ pc \in {"perceive", "decide"} => requests = step
  /\ pc \in {"act", "append"} => requests = step + 1

\* the history changes only by appending the decision of the current
\* step, which completes that step; the decision of a step is fixed once
\* made, and is up for appending only once execute_action has dispatched
\* it and returned
HistoryStep ==
  /\ action_history' # action_history =>
       /\ pc = "append"
       /\ action_history' = Append(action_history, decision)
       /\ step' = step + 1
  /\ step' # step => Len(action_history') = Len(action_history) + 1
  /\ decision' # decision => pc = "decide"
  /\ (pc' = "append" /\ pc # "append") =>
       /\ pc = "act"
       /\ Len(commands') =
            Len(commands)
              + (IF Get(decision, "action", NoneVal) \in CommandKinds THEN 1 ELSE 0)

\* C13: the action history is empty when the run starts, holds at the
\* start of step k exactly the decisions of steps 1..k-1 in order, grows
\* by exactly one entry per completed step, by an append that leaves the
\* existing entries as they are, and receives the decision of a step only
\* after that step's action has been dispatched.
C13_HistoryAppendOnly == []HistoryMatchesSteps /\ [][HistoryStep]_vars

C13_Witness ==
  /\ pc = "max_steps_reached"
  /\ step = 2
  /\ Len(action_history) = 2
  /\ Get(action_history[1], "action", NoneVal) = "tap"
  /\ Get(action_history[2], "action", NoneVal) = "type"
  /\ Len(commands) = 6

====
